---- MODULE Spec2Model ----
(***************************************************************************)
(* Model of the three service adapters of shared_libs:                     *)
(*   qdrant/base_collection.py   QdrantCollection                          *)
(*   arango/base_collection.py   ArangoCollectionBase                      *)
(*   llm/local_opemnai_client.py LocalOpenaiClient                         *)
(*   llm/openai_client.py        OpenaiClient                              *)
(* The adapters do not call one another, so each has its own next-state    *)
(* relation and specification over the shared initial state.               *)
(*                                                                         *)
(* Python values whose type varies at run time are tagged records, so two  *)
(* values of different Python types are always comparable (and unequal).   *)
(***************************************************************************)
EXTENDS Integers, Sequences, FiniteSets

VARIABLES
    \* ---- vector store (Qdrant server) and its adapters
    q_collections,  \* names of the collections that exist in the store
    q_points,       \* the points of collection_name: id -> [vector, payload]
    q_pc,           \* per adapter: "idle", or "listed" inside create_collection
    q_names,        \* per adapter: collections_names read by create_collection
    q_last,         \* the latest finished invocation: arguments, calls, outcome
    q_hist,         \* per adapter: history of its create_collection invocations
    q_arrivals      \* creation calls for collection_name the store has handled,
                    \* by whether the collection existed when the call arrived

qvars == <<q_collections, q_points, q_pc, q_names, q_last, q_hist, q_arrivals>>

VARIABLES
    \* ---- document/graph store (ArangoDB server) and its adapter
    a_coll,         \* collection_name in the database: "absent", "document", "edge"
    a_docs,         \* its documents: a set of dicts, one per _key
    a_rev,          \* the server's revision counter (writes so far)
    a_adapter,      \* the adapter instance the caller holds, or NoneV
    a_last,         \* the latest invocation: arguments, calls, outcome
    a_track         \* the latest inserted document not updated or deleted since

avars == <<a_coll, a_docs, a_rev, a_adapter, a_last, a_track>>

VARIABLES
    \* ---- LLM clients (chat-completion endpoint)
    l_last          \* the latest invocation: arguments, events, outcome

lvars == <<l_last>>

vars == <<qvars, avars, lvars>>

-----------------------------------------------------------------------------
(* Python values *)

NoneV == [t |-> "none"]
IntV(i) == [t |-> "int", i |-> i]
StrV(s) == [t |-> "str", s |-> s]

BoolV(b) == [t |-> "bool", b |-> b]
DictV(d) == [t |-> "dict", d |-> d]
ListV(l) == [t |-> "list", l |-> l]
ObjV(o) == [t |-> "obj", o |-> o]       \* an object: its attributes as a dict

\* A dict as a set of <<key, value>> pairs; {} is the empty dict.
EmptyDict == {}
Keys(d) == {p[1] : p \in d}
Has(d, k) == k \in Keys(d)
Get(d, k) == (CHOOSE p \in d : p[1] = k)[2]

\* Truth value of a Python value, as `if x:` tests it.
Truthy(v) ==
    CASE v.t = "none" -> FALSE
      [] v.t = "bool" -> v.b
      [] v.t = "int" -> v.i # 0
      [] v.t = "str" -> v.s # <<>>
      [] v.t = "dict" -> v.d # {}
      [] OTHER -> TRUE

Min(a, b) == IF a <= b THEN a ELSE b

\* An expression's outcome: a value, or the exception it raises.
Ok(v) == [exc |-> "", val |-> v]
Raise(e) == [exc |-> e, val |-> NoneV]

\* obj.name
GetAttr(v, name) ==
    IF v.t = "obj" /\ Has(v.o, name) THEN Ok(Get(v.o, name))
    ELSE Raise("AttributeError")

\* v[0]
GetItem0(v) ==
    CASE v.t = "list" -> IF Len(v.l) >= 1 THEN Ok(v.l[1]) ELSE Raise("IndexError")
      [] v.t = "str" -> IF Len(v.s) >= 1 THEN Ok(StrV(<<v.s[1]>>)) ELSE Raise("IndexError")
      [] v.t = "dict" -> Raise("KeyError")     \* no dict here has the key 0
      [] OTHER -> Raise("TypeError")           \* None, a number, a plain object

\* Decimal digits of a string given as a sequence of characters.
DigitValue(c) ==
    CASE c = "0" -> 0 [] c = "1" -> 1 [] c = "2" -> 2 [] c = "3" -> 3
      [] c = "4" -> 4 [] c = "5" -> 5 [] c = "6" -> 6 [] c = "7" -> 7
      [] c = "8" -> 8 [] c = "9" -> 9 [] OTHER -> -1

RECURSIVE DecimalValue(_)
DecimalValue(chars) ==
    IF chars = <<>> THEN 0
    ELSE 10 * DecimalValue(SubSeq(chars, 1, Len(chars) - 1))
         + DigitValue(chars[Len(chars)])

\* int(v): an int is itself; a str is parsed as decimal digits and raises
\* ValueError otherwise.
PyInt(v) ==
    IF v.t = "int" THEN [exc |-> "", val |-> v.i]
    ELSE IF v.t = "str"
         THEN IF v.s # <<>> /\ \A k \in 1..Len(v.s) : DigitValue(v.s[k]) >= 0
              THEN [exc |-> "", val |-> DecimalValue(v.s)]
              ELSE [exc |-> "ValueError", val |-> 0]
         ELSE [exc |-> "TypeError", val |-> 0]

-----------------------------------------------------------------------------
(* Vector store adapter: qdrant/base_collection.py *)

\* Bounds of the model.
MaxRecords == 2     \* longest record list handed to add_records
MaxLimit == 2       \* largest search limit
MaxScore == 1       \* scores are 0..MaxScore

QAdapters == {"A1", "A2"}       \* adapter instances of one concrete subclass
collection_name == "docs"
vector_size == 2
distance == "COSINE"

QCollectionNames == {collection_name, "other"}

\* The record dicts callers pass: "id" and "payload" may be absent keys.
QRecord(has_id, id, vector, has_payload, payload) ==
    [has_id |-> has_id, id |-> id, vector |-> vector,
     has_payload |-> has_payload, payload |-> payload]

QRecords ==
    { QRecord(TRUE, IntV(1), <<1, 0>>, TRUE, {<<"title", "a">>}),
      QRecord(TRUE, StrV(<<"1">>), <<0, 1>>, FALSE, EmptyDict),
      QRecord(TRUE, StrV(<<"2">>), <<1, 0>>, FALSE, EmptyDict),
      QRecord(TRUE, StrV(<<"x">>), <<1, 0>>, TRUE, EmptyDict),
      QRecord(FALSE, IntV(0), <<1, 0>>, TRUE, EmptyDict) }

RECURSIVE SeqsUpTo(_, _)
SeqsUpTo(S, n) ==
    IF n = 0 THEN {<<>>}
    ELSE LET shorter == SeqsUpTo(S, n - 1)
         IN  shorter \cup {Append(s, x) : s \in {t \in shorter : Len(t) = n - 1}, x \in S}

\* How an invocation ended: exc = "" is a normal return.
QOutcome(op, by, args, calls, sent, exc, result, reply) ==
    [op |-> op, by |-> by, args |-> args, calls |-> calls, sent |-> sent,
     exc |-> exc, result |-> result, reply |-> reply]

\* History of an adapter's create_collection invocations that met no injected
\* store fault and no change of the store by another actor:
\*   run       how many such invocations finished in succession (at most 2 kept)
\*   creates   the creation calls each of them issued
\*   unchanged whether the latest left the set of collections as it found it
\*   cur/start creation calls of, and collections at the start of, the current one
\*   clean     no other actor changed the store during the current one
QNoHist == [run |-> 0, creates |-> <<>>, unchanged |-> TRUE, cur |-> 0,
            start |-> {}, clean |-> TRUE]

QInit ==
    /\ q_collections \in SUBSET QCollectionNames
    /\ q_points = <<>>
    /\ q_pc = [a \in QAdapters |-> "idle"]
    /\ q_names = [a \in QAdapters |-> {}]
    /\ q_last = QOutcome("__init__", "A1", <<>>, <<>>, <<>>, "", <<>>, <<>>)
    /\ q_hist = [a \in QAdapters |-> QNoHist]
    /\ q_arrivals = [absent |-> 0, present |-> 0]

\* ---- the store's side of each client call (qdrant server behaviour)

\* get_collections() answers with the existing collections.
StoreGetCollections == q_collections

\* create_collection(name, ...) is rejected when the name already exists.
StoreCreateRejected(name) == name \in q_collections

\* The store's count of the creation calls it handled (a call lost to a fault
\* is not handled), by the state it was in when the call arrived.
StoreCreateArrived(arrivals, name, fault) ==
    IF fault THEN arrivals
    ELSE IF name \in q_collections
         THEN [arrivals EXCEPT !.present = arrivals.present + 1]
         ELSE [arrivals EXCEPT !.absent = arrivals.absent + 1]

\* One upsert request is applied as a whole; a later point of the request
\* replaces an earlier one with the same id.
RECURSIVE StoreUpsert(_, _)
StoreUpsert(stored, points) ==
    IF points = <<>> THEN stored
    ELSE LET pt == Head(points)
             next == [i \in DOMAIN stored \cup {pt.id} |->
                        IF i = pt.id THEN [vector |-> pt.vector, payload |-> pt.payload]
                        ELSE stored[i]]
         IN  StoreUpsert(next, Tail(points))

StoreUpsertRejected(name, points) ==
    \/ name \notin q_collections
    \/ \E k \in 1..Len(points) : Len(points[k].vector) # vector_size

\* The scored point the store answers with.
ScoredPoint(id, score, stored) ==
    [id |-> id, version |-> 0, score |-> score, payload |-> stored[id].payload,
     vector |-> NoneV]

\* The best remaining point: highest score, lowest id among equals.
BestOf(ids, scores) ==
    CHOOSE i \in ids : \A j \in ids :
        scores[i] > scores[j] \/ (scores[i] = scores[j] /\ i <= j)

RECURSIVE RankedIds(_, _)
RankedIds(ids, scores) ==
    IF ids = {} THEN <<>>
    ELSE LET b == BestOf(ids, scores)
         IN  <<b>> \o RankedIds(ids \ {b}, scores)

\* search(request): the points whose score passes the request's threshold,
\* best first, at most `limit` of them.
StoreSearch(stored, scores, request) ==
    LET passing == {i \in DOMAIN stored :
                      request.score_threshold.t = "int"
                          => scores[i] >= request.score_threshold.i}
        ranked == RankedIds(passing, scores)
    IN  [k \in 1..Min(request.limit, Len(ranked)) |->
            ScoredPoint(ranked[k], scores[ranked[k]], stored)]

StoreSearchRejected(name, request) ==
    \/ name \notin q_collections
    \/ Len(request.query_vector) # vector_size

\* ---- QdrantCollection.create_collection

\* collections_names = [c.name for c in get_collections().collections]
CollectionsNames(collections) == collections

\* `if self.collection_name in collections_names: return` else create.
ShouldCreate_Always(names) == TRUE
ShouldCreate(names) == collection_name \notin names

\* The other adapters see the store changed by another actor.
OthersDisturbed(a, hist) ==
    [b \in QAdapters |->
        IF b = a THEN hist[b]
        ELSE [QNoHist EXCEPT !.clean = (q_pc[b] = "idle"),
                             !.cur = hist[b].cur, !.start = hist[b].start]]

\* An invocation of adapter a ends having issued `cur` creation calls.
HistFinished(h, cur, fault, after) ==
    IF fault \/ ~h.clean THEN QNoHist
    ELSE [run |-> Min(h.run + 1, 2),
          creates |-> (IF h.run >= 1 THEN <<h.creates[Len(h.creates)]>> ELSE <<>>)
                      \o <<cur>>,
          unchanged |-> (after = h.start),
          cur |-> 0, start |-> {}, clean |-> TRUE]

\* Lines 45-48: list the collections; return when the name is among them.
create_collection_list(a) ==
    /\ q_pc[a] = "idle"
    /\ \E fault \in BOOLEAN :
        LET names == CollectionsNames(StoreGetCollections)
            h0 == [q_hist[a] EXCEPT !.cur = 0, !.start = q_collections, !.clean = TRUE]
        IN  IF fault
            THEN /\ q_last' = QOutcome("create_collection", a, <<>>,
                                       <<"get_collections">>, <<>>, "RuntimeError", <<>>, <<>>)
                 /\ q_hist' = [q_hist EXCEPT ![a] = QNoHist]
                 /\ UNCHANGED <<q_pc, q_names>>
            ELSE IF ShouldCreate(names)
            THEN /\ q_pc' = [q_pc EXCEPT ![a] = "listed"]
                 /\ q_names' = [q_names EXCEPT ![a] = names]
                 /\ q_hist' = [q_hist EXCEPT ![a] = h0]
                 /\ UNCHANGED q_last
            ELSE /\ q_last' = QOutcome("create_collection", a, <<>>,
                                       <<"get_collections">>, <<>>, "", <<>>, <<>>)
                 /\ q_hist' = [q_hist EXCEPT ![a] = HistFinished(h0, 0, FALSE, q_collections)]
                 /\ UNCHANGED <<q_pc, q_names>>
    /\ UNCHANGED <<q_collections, q_points, q_arrivals, avars, lvars>>

\* Lines 50-56: the creation call, any failure of it reported as RuntimeError.
create_collection_create(a) ==
    /\ q_pc[a] = "listed"
    /\ \E fault \in BOOLEAN :
        LET sent == [collection_name |-> collection_name, size |-> vector_size,
                     distance |-> distance]
            failed == fault \/ StoreCreateRejected(collection_name)
            after == IF failed THEN q_collections ELSE q_collections \cup {collection_name}
        IN  /\ q_collections' = after
            /\ q_arrivals' = StoreCreateArrived(q_arrivals, collection_name, fault)
            /\ q_last' = QOutcome("create_collection", a, <<>>,
                                  <<"get_collections", "create_collection">>, sent,
                                  IF failed THEN "RuntimeError" ELSE "", <<>>, <<>>)
            /\ q_hist' = [(IF after # q_collections THEN OthersDisturbed(a, q_hist)
                            ELSE q_hist) EXCEPT
                             ![a] = HistFinished(q_hist[a], 1, fault, after)]
    /\ q_pc' = [q_pc EXCEPT ![a] = "idle"]
    /\ q_names' = [q_names EXCEPT ![a] = {}]
    /\ UNCHANGED <<q_points, avars, lvars>>

\* ---- QdrantCollection.add_records

\* Lines 78-82: PointStruct(id=int(rec["id"]), vector=rec["vector"],
\* payload=rec.get("payload", {})); rec["id"] raises KeyError when absent.
PointStruct(rec) ==
    IF ~rec.has_id THEN [exc |-> "KeyError", point |-> <<>>]
    ELSE LET id == PyInt(rec.id)
         IN  IF id.exc # "" THEN [exc |-> id.exc, point |-> <<>>]
             ELSE [exc |-> "",
                   point |-> [id |-> id.val, vector |-> rec.vector,
                              payload |-> IF rec.has_payload THEN rec.payload
                                          ELSE EmptyDict]]

\* Lines 76-83: the loop over the records; the first failing conversion
\* raises out of add_records.
RECURSIVE ToPoints_SkipUnconvertible(_)
ToPoints_SkipUnconvertible(records) ==
    IF records = <<>> THEN [exc |-> "", points |-> <<>>]
    ELSE LET first == PointStruct(Head(records))
             rest == ToPoints_SkipUnconvertible(Tail(records))
         IN  IF first.exc # "" THEN rest
             ELSE [exc |-> "", points |-> <<first.point>> \o rest.points]
RECURSIVE ToPoints(_)
ToPoints(records) ==
    IF records = <<>> THEN [exc |-> "", points |-> <<>>]
    ELSE LET first == PointStruct(Head(records))
         IN  IF first.exc # "" THEN [exc |-> first.exc, points |-> <<>>]
             ELSE LET rest == ToPoints(Tail(records))
                  IN  IF rest.exc # "" THEN rest
                      ELSE [exc |-> "", points |-> <<first.point>> \o rest.points]

\* Line 73: `if not records`.
NoRecords_Never(records) == FALSE
NoRecords(records) == records = <<>>

add_records(a, records) ==
    /\ q_pc[a] = "idle"
    /\ LET conv == ToPoints(records)
       IN  IF NoRecords(records)
           THEN /\ q_last' = QOutcome("add_records", a, records, <<>>, <<>>,
                                      "ValueError", <<>>, <<>>)
                /\ UNCHANGED q_points
           ELSE IF conv.exc # ""
           THEN /\ q_last' = QOutcome("add_records", a, records, <<>>, <<>>,
                                      conv.exc, <<>>, <<>>)
                /\ UNCHANGED q_points
           ELSE \E fault \in BOOLEAN :
                LET failed == fault \/ StoreUpsertRejected(collection_name, conv.points)
                IN  /\ q_points' = IF failed THEN q_points
                                   ELSE StoreUpsert(q_points, conv.points)
                    /\ q_last' = QOutcome("add_records", a, records, <<"upsert">>,
                                          conv.points,
                                          IF failed THEN "RuntimeError" ELSE "",
                                          <<>>, <<>>)
    /\ UNCHANGED <<q_collections, q_pc, q_names, q_hist, q_arrivals, avars, lvars>>

\* ---- QdrantCollection.search

\* Lines 114-120: the request handed to client.search; `filter` is not part
\* of it.
SearchRequest(query_vector, limit, filter, score_threshold) ==
    [query_vector |-> query_vector, limit |-> limit,
     score_threshold |-> score_threshold]

\* Lines 125-128: one dict per point of the reply, in the reply's order.
SearchResult_Reversed(results) ==
    [k \in 1..Len(results) |->
        LET point == results[Len(results) + 1 - k]
        IN  [id |-> point.id, payload |-> point.payload, score |-> point.score]]
SearchResult(results) ==
    [k \in 1..Len(results) |->
        [id |-> results[k].id, payload |-> results[k].payload,
         score |-> results[k].score]]

QFilters == {NoneV, [t |-> "filter", must |-> <<"title", "a">>]}
QThresholds == {NoneV} \cup {IntV(n) : n \in 0..MaxScore}

search(a, query_vector, limit, filter, score_threshold) ==
    /\ q_pc[a] = "idle"
    /\ \E fault \in BOOLEAN, scores \in [DOMAIN q_points -> 0..MaxScore] :
        LET request == SearchRequest(query_vector, limit, filter, score_threshold)
            failed == fault \/ StoreSearchRejected(collection_name, request)
            results == StoreSearch(q_points, scores, request)
            args == [limit |-> limit, score_threshold |-> score_threshold]
        IN  q_last' = IF failed
                      THEN QOutcome("search", a, args, <<"search">>, request,
                                    "RuntimeError", <<>>, <<>>)
                      ELSE QOutcome("search", a, args, <<"search">>, request,
                                    "", SearchResult(results), results)
    /\ UNCHANGED <<q_collections, q_points, q_pc, q_names, q_hist, q_arrivals,
                   avars, lvars>>

-----------------------------------------------------------------------------
(* Document/graph store adapter: arango/base_collection.py *)

MaxRev == 2         \* writes the server accepts in one behaviour

a_collection_name == "items"
Digits == <<"0", "1", "2", "3", "4", "5", "6", "7", "8", "9">>

\* The documents callers insert: any of _key, name, tag may be absent.
AItems ==
    { {},
      {<<"name", "a">>},
      {<<"name", "a">>, <<"tag", "x">>},
      {<<"_key", "k1">>},
      {<<"_key", "k1">>, <<"name", "a">>},
      {<<"_key", "k1">>, <<"name", "a">>, <<"tag", "x">>},
      {<<"_key", "bad key">>, <<"name", "a">>} }
AUpdates == {{<<"name", "b">>}, {<<"tag", "y">>}, {<<"name", "b">>, <<"tag", "y">>}}
AKeys == {"k1", "nokey"} \cup {Digits[n + 1] : n \in 1..MaxRev}

AOutcome(op, args, calls, exc, result, before) ==
    [op |-> op, args |-> args, calls |-> calls, exc |-> exc, result |-> result,
     before |-> before]
ANoTrack == [live |-> FALSE, key |-> "", item |-> {}]

AInit ==
    /\ a_coll \in {"absent", "document", "edge"}
    /\ a_docs = {}
    /\ a_rev = 0
    /\ a_adapter = NoneV
    /\ a_last = AOutcome("none", <<>>, <<>>, "", NoneV, {})
    /\ a_track = ANoTrack

\* ---- the server's side of each call (ArangoDB behaviour)

DocOf(docs, key) == CHOOSE d \in docs : Get(d, "_key") = key
HasDoc(docs, key) == \E d \in docs : Get(d, "_key") = key

\* Keys are non-empty and hold no blank.
ValidKey(key) == key \in {"k1"} \cup {Digits[k] : k \in 1..10}

\* insert: the key is the given _key or a generated one; the stored document
\* is the given one with _key, _id and _rev set by the server.
InsertKey(item) == IF Has(item, "_key") THEN Get(item, "_key") ELSE Digits[a_rev + 2]
InsertRejected(item) ==
    \/ a_coll # "document"      \* absent, or an edge collection: no _from/_to here
    \/ ~ValidKey(InsertKey(item))
    \/ HasDoc(a_docs, InsertKey(item))
Stored(item, key, rev) ==
    {p \in item : p[1] \notin {"_key", "_id", "_rev"}}
        \cup {<<"_key", key>>, <<"_id", <<a_collection_name, key>>>>, <<"_rev", rev>>}
Metadata(doc) == {p \in doc : p[1] \in {"_key", "_id", "_rev"}}

\* update_match(filters, body): every matching document gets the body's fields
\* merged in; the reply is the number of documents updated.
Matches(doc, filters) == \A f \in filters : Has(doc, f[1]) /\ Get(doc, f[1]) = f[2]
Merged(doc, body, rev) ==
    {p \in doc : p[1] \notin Keys(body) \cup {"_rev"}}
        \cup {p \in body : p[1] \notin {"_key", "_id", "_rev"}}
        \cup {<<"_rev", rev>>}

\* ---- ArangoCollectionBase.__init__

\* Lines 65-72: create only when has_collection answers False, as an edge
\* collection when is_edge_collection.
CreateKind_NeverEdge(is_edge_collection) == "document"
CreateKind(is_edge_collection) == IF is_edge_collection THEN "edge" ELSE "document"

\* env: "ok", or where the server fails the construction.
AInitFaults == {"ok", "connect", "unreachable", "create_denied"}

init(is_edge_collection, env) ==
    /\ LET args == [is_edge_collection |-> is_edge_collection, env |-> env]
           missing == a_coll = "absent"
           has == [call |-> "has_collection", name |-> a_collection_name, kind |-> ""]
           create == [call |-> "create_collection", name |-> a_collection_name,
                      kind |-> CreateKind(is_edge_collection)]
           handle == [collection_name |-> a_collection_name,
                      is_edge_collection |-> is_edge_collection]
       IN  CASE env = "connect" ->
                 \* lines 57-62: the client or database handle cannot be made
                 /\ a_last' = AOutcome("__init__", args, <<>>, "RuntimeError", NoneV, a_coll)
                 /\ UNCHANGED <<a_coll, a_adapter>>
             [] env = "unreachable" ->
                 \* has_collection raises
                 /\ a_last' = AOutcome("__init__", args, <<has>>, "RuntimeError", NoneV, a_coll)
                 /\ UNCHANGED <<a_coll, a_adapter>>
             [] env = "create_denied" /\ missing ->
                 \* create_collection raises CollectionCreateError
                 /\ a_last' = AOutcome("__init__", args, <<has, create>>, "RuntimeError", NoneV,
                                       a_coll)
                 /\ UNCHANGED <<a_coll, a_adapter>>
             [] OTHER ->
                 /\ a_coll' = IF missing THEN create.kind ELSE a_coll
                 /\ a_adapter' = handle
                 /\ a_last' = AOutcome("__init__", args,
                                       IF missing THEN <<has, create>> ELSE <<has>>,
                                       "", handle, a_coll)
    /\ UNCHANGED <<a_docs, a_rev, a_track, qvars, lvars>>

\* ---- ArangoCollectionBase.insert_item

insert_item(item, return_new) ==
    /\ a_adapter # NoneV
    /\ \E fault \in BOOLEAN :
        LET key == InsertKey(item)
            doc == Stored(item, key, a_rev + 1)
            args == [return_new |-> return_new]
        IN  IF fault \/ InsertRejected(item)
            THEN /\ a_last' = AOutcome("insert_item", args, <<"insert">>, "ValueError",
                                       NoneV, {})
                 /\ UNCHANGED <<a_docs, a_rev, a_track>>
            ELSE /\ a_rev < MaxRev
                 /\ a_docs' = a_docs \cup {doc}
                 /\ a_rev' = a_rev + 1
                 /\ a_last' = AOutcome("insert_item", args, <<"insert">>, "",
                                       DictV(Metadata(doc) \cup
                                             (IF return_new THEN {<<"new", doc>>} ELSE {})),
                                       {})
                 /\ a_track' = [live |-> TRUE, key |-> key, item |-> item]
    /\ UNCHANGED <<a_coll, a_adapter, qvars, lvars>>

\* ---- ArangoCollectionBase.get_item

\* Line 116: `return self.collection.get(key)`: the document, or None.
GetItemResult_Has(reply) == BoolV(reply # NoneV)
GetItemResult(reply) == reply

get_item(key) ==
    /\ a_adapter # NoneV
    /\ \E fault \in BOOLEAN :
        LET reply == IF HasDoc(a_docs, key) THEN DictV(DocOf(a_docs, key)) ELSE NoneV
        IN  a_last' = IF fault
                      THEN AOutcome("get_item", key, <<"get">>, "RuntimeError", NoneV, {})
                      ELSE AOutcome("get_item", key, <<"get">>, "", GetItemResult(reply), {})
    /\ UNCHANGED <<a_coll, a_docs, a_rev, a_adapter, a_track, qvars, lvars>>

\* ---- ArangoCollectionBase.update_item

\* Line 138: update_match({"_key": key}, updates).
UpdateFilters(key) == {<<"_key", key>>}

update_item(key, updates) ==
    /\ a_adapter # NoneV
    /\ \E fault \in BOOLEAN :
        LET matching == {d \in a_docs : Matches(d, UpdateFilters(key))}
            args == [key |-> key, updates |-> updates]
        IN  IF fault
            THEN /\ a_last' = AOutcome("update_item", args, <<"update_match">>,
                                       "ValueError", NoneV, a_docs)
                 /\ UNCHANGED <<a_docs, a_rev, a_track>>
            ELSE IF matching = {}
            THEN /\ a_last' = AOutcome("update_item", args, <<"update_match">>, "",
                                       IntV(0), a_docs)
                 /\ UNCHANGED <<a_docs, a_rev, a_track>>
            ELSE /\ a_rev < MaxRev
                 /\ a_docs' = (a_docs \ matching)
                                 \cup {Merged(d, updates, a_rev + 1) : d \in matching}
                 /\ a_rev' = a_rev + 1
                 /\ a_last' = AOutcome("update_item", args, <<"update_match">>, "",
                                       IntV(Cardinality(matching)), a_docs)
                 /\ a_track' = IF a_track.live /\ a_track.key = key THEN ANoTrack
                               ELSE a_track
    /\ UNCHANGED <<a_coll, a_adapter, qvars, lvars>>

\* ---- ArangoCollectionBase.delete_item

\* Lines 156-160: the reply of collection.delete(key) is returned; any
\* exception of it is raised as RuntimeError.
DeleteOutcome_Swallow(reply) ==
    IF reply.exc # "" THEN [exc |-> "", result |-> BoolV(TRUE)]
    ELSE [exc |-> "", result |-> reply.value]
DeleteOutcome(reply) ==
    IF reply.exc # "" THEN [exc |-> "RuntimeError", result |-> NoneV]
    ELSE [exc |-> "", result |-> reply.value]

delete_item(key) ==
    /\ a_adapter # NoneV
    /\ \E fault \in BOOLEAN :
        LET found == HasDoc(a_docs, key)
            \* delete(key) with ignore_missing left False raises when no
            \* document has the key
            reply == IF fault \/ ~found
                     THEN [exc |-> "DocumentDeleteError", value |-> NoneV]
                     ELSE [exc |-> "", value |-> DictV(Metadata(DocOf(a_docs, key)))]
            out == DeleteOutcome(reply)
        IN  /\ a_last' = AOutcome("delete_item", key, <<"delete">>, out.exc, out.result,
                                  a_docs)
            /\ IF reply.exc = ""
               THEN /\ a_rev < MaxRev
                    /\ a_docs' = a_docs \ {DocOf(a_docs, key)}
                    /\ a_rev' = a_rev + 1
                    /\ a_track' = IF a_track.live /\ a_track.key = key THEN ANoTrack
                                  ELSE a_track
               ELSE UNCHANGED <<a_docs, a_rev, a_track>>
    /\ UNCHANGED <<a_coll, a_adapter, qvars, lvars>>

NextArango ==
    \/ \E is_edge_collection \in BOOLEAN, env \in AInitFaults :
           init(is_edge_collection, env)
    \/ \E item \in AItems, return_new \in BOOLEAN : insert_item(item, return_new)
    \/ \E key \in AKeys : get_item(key)
    \/ \E key \in AKeys, updates \in AUpdates : update_item(key, updates)
    \/ \E key \in AKeys : delete_item(key)

-----------------------------------------------------------------------------
(* LLM clients: llm/local_opemnai_client.py and llm/openai_client.py *)

\* A str is its sequence of lexical tokens: punctuation, numbers, quoted
\* strings (their characters), bare words and white space.
P(c) == [k |-> "punct", p |-> c]
N(n) == [k |-> "num", n |-> n]
S(w) == [k |-> "string", w |-> w]
Word(w) == [k |-> "word", w |-> w]
Ws == [k |-> "ws"]

Text(tokens) == StrV(tokens)
EmptyStr == StrV(<<>>)

LPrompts == {Text(<<Word("hello")>>), EmptyStr}
LSystemPrompts == {EmptyStr, Text(<<Word("be"), Ws, Word("terse")>>)}

\* What the endpoint may answer with as the first choice's content.
LPlainContents ==
    { NoneV,
      Text(<<Word("hi")>>),
      Text(<<Ws, Word("hi"), Ws>>) }
LJsonContents ==
    { Text(<<Word("not"), Ws, Word("json")>>),
      Text(<<P("{"), S(<<"a">>), P(":"), Ws, N(1), P("}")>>),
      Text(<<P("{"), S(<<"a">>), P(":"), S(<<"1">>), P(","), S(<<"b">>), P(":"), N(2),
             P("}")>>),
      Text(<<P("{"), S(<<"a">>), P(":"), S(<<"x">>), P("}")>>),
      Text(<<P("{"), S(<<"b">>), P(":"), N(1), P("}")>>),
      Text(<<P("{"), S(<<"a">>), P(":"), N(1)>>),
      Text(<<N(1)>>) }

Response(choices) == ObjV({<<"id", Text(<<Word("r1")>>)>>, <<"choices", choices>>})
Choice(message) == ObjV({<<"index", IntV(0)>>, <<"message", message>>})
Message(content) == ObjV({<<"role", Text(<<Word("assistant")>>)>>, <<"content", content>>})

\* The shapes of response the endpoint may send.
LOddResponses ==
    { ObjV({<<"id", Text(<<Word("r1")>>)>>}),        \* no choices attribute
      Response(NoneV),
      Response(ListV(<<>>)),
      Response(DictV(EmptyDict)),
      Response(ListV(<<ObjV({<<"index", IntV(0)>>})>>)),
      Response(ListV(<<Choice(NoneV)>>)),
      Response(ListV(<<Choice(ObjV({<<"role", Text(<<Word("assistant")>>)>>}))>>)) }

\* What chat.completions.create does: raises, or returns a response.
RepliesWith(contents) ==
    {[raises |-> TRUE, response |-> NoneV]}
    \cup {[raises |-> FALSE, response |-> r] : r \in LOddResponses}
    \cup {[raises |-> FALSE, response |-> Response(ListV(<<Choice(Message(c))>>))] :
            c \in contents}
LReplies == RepliesWith(LPlainContents)
LJsonReplies == RepliesWith(LPlainContents \cup LJsonContents)

LOutcome(client, op, args, events, exc, result) ==
    [client |-> client, op |-> op, args |-> args, events |-> events, exc |-> exc,
     result |-> result]

CallEvent(request) == [e |-> "create", request |-> request]
SleepEvent(seconds) == [e |-> "sleep", seconds |-> seconds]

LInit == l_last = LOutcome("none", "none", <<>>, <<>>, "", NoneV)

\* response.choices[0].message.content
FirstChoiceContent(response) ==
    LET choices == GetAttr(response, "choices")
    IN  IF choices.exc # "" THEN choices
        ELSE LET first == GetItem0(choices.val)
             IN  IF first.exc # "" THEN first
                 ELSE LET message == GetAttr(first.val, "message")
                      IN  IF message.exc # "" THEN message
                          ELSE GetAttr(message.val, "content")

\* `except (...) as e: raise RuntimeError(...)`: an exception of one of the
\* caught classes becomes RuntimeError, any other leaves the function as it is.
Rewrap(exc, caught, as) == IF exc \in caught THEN as ELSE exc

\* ---- LocalOpenaiClient.generate

\* Lines 67-77: the optional system message, then the user message carrying
\* the prompt as one text part.
LocalGenerateMessages_PlainContent(prompt, system_prompt) ==
    (IF Truthy(system_prompt) THEN <<[role |-> "system", content |-> system_prompt]>>
     ELSE <<>>)
    \o <<[role |-> "user", content |-> prompt]>>
LocalGenerateMessages(prompt, system_prompt) ==
    (IF Truthy(system_prompt) THEN <<[role |-> "system", content |-> system_prompt]>>
     ELSE <<>>)
    \o <<[role |-> "user",
          content |-> ListV(<<[type |-> "text", text |-> prompt]>>)]>>

\* Lines 90-94.
LocalGenerateCaught == {"AttributeError", "KeyError", "IndexError"}

local_generate(prompt, max_tokens, temperature, system_prompt, reply) ==
    /\ LET args == [prompt |-> prompt, system_prompt |-> system_prompt, reply |-> reply]
           request == [messages |-> LocalGenerateMessages(prompt, system_prompt),
                       max_tokens |-> max_tokens, temperature |-> temperature]
           content == FirstChoiceContent(reply.response)
       IN  l_last' =
             IF reply.raises
             THEN LOutcome("LocalOpenaiClient", "generate", args, <<CallEvent(request)>>,
                           "RuntimeError", NoneV)
             ELSE LOutcome("LocalOpenaiClient", "generate", args, <<CallEvent(request)>>,
                           Rewrap(content.exc, LocalGenerateCaught, "RuntimeError"),
                           content.val)
    /\ UNCHANGED <<qvars, avars>>

\* ---- OpenaiClient.generate

\* Lines 63-68.
OpenaiGenerateMessages(prompt, system_prompt) ==
    (IF Truthy(system_prompt) THEN <<[role |-> "system", content |-> system_prompt]>>
     ELSE <<>>)
    \o <<[role |-> "user",
          content |-> ListV(<<[type |-> "text", text |-> prompt]>>)]>>

\* Line 77: time.sleep(60) before the RuntimeError is raised.
OpenaiFailurePause == 60

\* Lines 70-78: what happens when the create call raises: the one call, then
\* the pause; the RuntimeError follows.
OpenaiFailureEvents_Retry(request) ==
    <<CallEvent(request), SleepEvent(OpenaiFailurePause), CallEvent(request)>>
OpenaiFailureEvents(request) ==
    <<CallEvent(request), SleepEvent(OpenaiFailurePause)>>

\* Lines 80-83.
OpenaiGenerateCaught == {"AttributeError", "KeyError", "IndexError"}

openai_generate(prompt, system_prompt, reply) ==
    /\ LET args == [prompt |-> prompt, system_prompt |-> system_prompt, reply |-> reply]
           request == [messages |-> OpenaiGenerateMessages(prompt, system_prompt),
                       temperature |-> "0.0"]
           content == FirstChoiceContent(reply.response)
       IN  l_last' =
             IF reply.raises
             THEN LOutcome("OpenaiClient", "generate", args,
                           OpenaiFailureEvents(request), "RuntimeError", NoneV)
             ELSE LOutcome("OpenaiClient", "generate", args, <<CallEvent(request)>>,
                           Rewrap(content.exc, OpenaiGenerateCaught, "RuntimeError"),
                           content.val)
    /\ UNCHANGED <<qvars, avars>>

\* ---- LocalOpenaiClient.generate_json

\* pydantic: BaseModel.model_validate_json and model_dump_json, for a model
\* class given as its fields in declaration order, each <<name, type>>.
LSchemas == { << <<<<"a">>, "int">> >>,
              << <<<<"a">>, "int">>, <<<<"b">>, "int">> >> }

NonWs(tokens) == SelectSeq(tokens, LAMBDA tok : tok.k # "ws")
IsScalar(tok) == tok.k \in {"num", "string"}
ScalarValue(tok) == IF tok.k = "num" THEN IntV(tok.n) ELSE StrV(tok.w)

\* "key": scalar {, "key": scalar}; a repeated key keeps its last value.
RECURSIVE ParseMembers(_)
ParseMembers(toks) ==
    IF Len(toks) < 3 \/ toks[1].k # "string" \/ toks[2] # P(":") \/ ~IsScalar(toks[3])
    THEN Raise("ValidationError")
    ELSE LET pair == <<toks[1].w, ScalarValue(toks[3])>>
         IN  IF Len(toks) = 3 THEN Ok({pair})
             ELSE IF toks[4] # P(",") THEN Raise("ValidationError")
             ELSE LET rest == ParseMembers(SubSeq(toks, 5, Len(toks)))
                  IN  IF rest.exc # "" THEN rest
                      ELSE Ok({q \in {pair} : q[1] \notin Keys(rest.val)} \cup rest.val)

\* The JSON value a text denotes: a scalar, or an object of scalars.
ParseJson(text) ==
    IF text.t # "str" THEN Raise("ValidationError")
    ELSE LET toks == NonWs(text.s)
         IN  IF Len(toks) = 1 /\ IsScalar(toks[1]) THEN Ok(ScalarValue(toks[1]))
             ELSE IF Len(toks) >= 2 /\ toks[1] = P("{") /\ toks[Len(toks)] = P("}")
             THEN IF Len(toks) = 2 THEN Ok(DictV(EmptyDict))
                  ELSE LET members == ParseMembers(SubSeq(toks, 2, Len(toks) - 1))
                       IN  IF members.exc # "" THEN members ELSE Ok(DictV(members.val))
             ELSE Raise("ValidationError")

\* A field value as the declared type (lax mode: a str of digits is an int).
Coerce(value, type) ==
    CASE type = "int" /\ value.t = "int" -> Ok(value)
      [] type = "int" /\ value.t = "str" ->
            IF PyInt(value).exc = "" THEN Ok(IntV(PyInt(value).val))
            ELSE Raise("ValidationError")
      [] type = "str" /\ value.t = "str" -> Ok(value)
      [] OTHER -> Raise("ValidationError")

\* The declared fields of a parsed object, each required; others are ignored.
model_validate_json(response_model, json_response) ==
    LET parsed == ParseJson(json_response)
        fields == {response_model[k] : k \in 1..Len(response_model)}
    IN  IF parsed.exc # "" THEN parsed
        ELSE IF parsed.val.t # "dict" THEN Raise("ValidationError")
        ELSE IF \E f \in fields :
                   \/ ~Has(parsed.val.d, f[1])
                   \/ Coerce(Get(parsed.val.d, f[1]), f[2]).exc # ""
        THEN Raise("ValidationError")
        ELSE Ok(DictV({<<f[1], Coerce(Get(parsed.val.d, f[1]), f[2]).val>> : f \in fields}))

DumpScalar(value) == IF value.t = "int" THEN N(value.i) ELSE S(value.s)

RECURSIVE DumpMembers(_, _)
DumpMembers(response_model, model) ==
    IF response_model = <<>> THEN <<>>
    ELSE LET name == Head(response_model)[1]
         IN  <<S(name), P(":"), DumpScalar(Get(model.d, name))>>
             \o (IF Len(response_model) = 1 THEN <<>> ELSE <<P(",")>>)
             \o DumpMembers(Tail(response_model), model)

\* The model as compact JSON text.
model_dump_json(response_model, model) ==
    Text(<<P("{")>> \o DumpMembers(response_model, model) \o <<P("}")>>)

\* Lines 123-126: here the user message carries the prompt as a plain string.
GenerateJsonMessages(prompt, system_prompt) ==
    (IF Truthy(system_prompt) THEN <<[role |-> "system", content |-> system_prompt]>>
     ELSE <<>>)
    \o <<[role |-> "user", content |-> prompt]>>

\* Lines 141, 147, 150.
GenerateJsonCaught == {"AttributeError", "IndexError"}
GenerateJsonInvalid == {"ValidationError", "JSONDecodeError"}

\* Lines 145-146: `parsed = ...model_validate_json(...)` and
\* `return parsed.model_dump_json()`.
GenerateJsonResult(response_model, parsed) == model_dump_json(response_model, parsed)

generate_json(prompt, max_tokens, response_model, temperature, system_prompt, reply) ==
    /\ LET args == [prompt |-> prompt, system_prompt |-> system_prompt, reply |-> reply,
                    response_model |-> response_model]
           request == [messages |-> GenerateJsonMessages(prompt, system_prompt),
                       max_tokens |-> max_tokens, temperature |-> temperature]
           content == FirstChoiceContent(reply.response)
           parsed == model_validate_json(response_model, content.val)
           out(exc, result) == LOutcome("LocalOpenaiClient", "generate_json", args,
                                        <<CallEvent(request)>>, exc, result)
       IN  l_last' =
             IF reply.raises THEN out("RuntimeError", NoneV)
             ELSE IF content.exc # ""
             THEN out(Rewrap(content.exc, GenerateJsonCaught, "RuntimeError"), NoneV)
             ELSE IF parsed.exc # ""
             THEN out(Rewrap(parsed.exc, GenerateJsonInvalid, "ValueError"), NoneV)
             ELSE out("", GenerateJsonResult(response_model, parsed.val))
    /\ UNCHANGED <<qvars, avars>>

\* ---- LocalOpenaiClient._encode_image_to_data_uri, generate_with_images

MaxImages == 2      \* longest list of image paths

\* The files on disk: their bytes, or unreadable.
LPaths == {"a.jpg", "b.jpg", "gone.jpg"}
FileReadable(path) == path \in {"a.jpg", "b.jpg"}
FileBytes(path) == IF path = "a.jpg" THEN <<255, 216, 255, 224>> ELSE <<77>>

Base64Alphabet ==
    <<"A", "B", "C", "D", "E", "F", "G", "H", "I", "J", "K", "L", "M", "N", "O", "P",
      "Q", "R", "S", "T", "U", "V", "W", "X", "Y", "Z", "a", "b", "c", "d", "e", "f",
      "g", "h", "i", "j", "k", "l", "m", "n", "o", "p", "q", "r", "s", "t", "u", "v",
      "w", "x", "y", "z", "0", "1", "2", "3", "4", "5", "6", "7", "8", "9", "+", "/">>

\* base64.b64encode: three bytes become four characters, "=" pads the tail.
RECURSIVE b64encode(_)
b64encode(bytes) ==
    IF bytes = <<>> THEN <<>>
    ELSE LET n == Len(bytes)
             bits == bytes[1] * 65536
                     + (IF n >= 2 THEN bytes[2] ELSE 0) * 256
                     + (IF n >= 3 THEN bytes[3] ELSE 0)
         IN  << Base64Alphabet[(bits \div 262144) + 1],
                Base64Alphabet[((bits \div 4096) % 64) + 1],
                IF n >= 2 THEN Base64Alphabet[((bits \div 64) % 64) + 1] ELSE "=",
                IF n >= 3 THEN Base64Alphabet[(bits % 64) + 1] ELSE "=" >>
             \o (IF n > 3 THEN b64encode(SubSeq(bytes, 4, n)) ELSE <<>>)

\* Lines 154-162: the function's one parameter (named self) is the path; any
\* failure to read or encode is raised as RuntimeError.
encode_image_to_data_uri(self) ==
    IF FileReadable(self)
    THEN Ok(StrV(<<"data:image/jpeg;base64,">> \o b64encode(FileBytes(self))))
    ELSE Raise("RuntimeError")

\* Line 154: `def _encode_image_to_data_uri(self: str)` declares one parameter.
EncodeImageParams == 1

\* Line 204: `self._encode_image_to_data_uri(img_path)`, a bound-method call:
\* the positional arguments are the client and the path. A call whose
\* argument count is not the declared one raises TypeError.
EncodeImageCall(client, img_path) ==
    LET positional == <<client, img_path>>
    IN  IF Len(positional) # EncodeImageParams THEN Raise("TypeError")
        ELSE encode_image_to_data_uri(positional[1])

\* Lines 202-210: the text part, then one image_url part per path, in order;
\* the first failing encode raises out of the loop.
RECURSIVE ImageParts(_, _)
ImageParts(client, images) ==
    IF images = <<>> THEN Ok(<<>>)
    ELSE LET data_uri == EncodeImageCall(client, Head(images))
         IN  IF data_uri.exc # "" THEN data_uri
             ELSE LET rest == ImageParts(client, Tail(images))
                  IN  IF rest.exc # "" THEN rest
                      ELSE Ok(<<[type |-> "image_url",
                                 image_url |-> [url |-> data_uri.val]]>> \o rest.val)

\* Lines 196-212.
ImagesMessages(prompt, system_prompt, parts) ==
    (IF Truthy(system_prompt) THEN <<[role |-> "system", content |-> system_prompt]>>
     ELSE <<>>)
    \o <<[role |-> "user",
          content |-> ListV(<<[type |-> "text", text |-> prompt]>> \o parts)]>>

\* str.strip()
RECURSIVE LStrip(_)
LStrip(toks) == IF toks # <<>> /\ Head(toks) = Ws THEN LStrip(Tail(toks)) ELSE toks
RECURSIVE RStrip(_)
RStrip(toks) ==
    IF toks # <<>> /\ toks[Len(toks)] = Ws THEN RStrip(SubSeq(toks, 1, Len(toks) - 1))
    ELSE toks
\* content.strip(): None has no strip attribute.
Strip(v) == IF v.t = "str" THEN Ok(StrV(RStrip(LStrip(v.s)))) ELSE Raise("AttributeError")

\* Lines 224-228.
GenerateWithImagesCaught == {"AttributeError", "KeyError", "IndexError"}

generate_with_images(prompt, images, system_prompt, max_tokens, temperature, reply) ==
    /\ LET args == [prompt |-> prompt, system_prompt |-> system_prompt, reply |-> reply,
                    images |-> images]
           \* lines 192-193: `if images is None: images = []`
           paths == IF images = NoneV THEN <<>> ELSE images.l
           parts == ImageParts("LocalOpenaiClient", paths)
           request == [messages |-> ImagesMessages(prompt, system_prompt, parts.val),
                       max_tokens |-> max_tokens, temperature |-> temperature]
           content == FirstChoiceContent(reply.response)
           stripped == Strip(content.val)
           out(events, exc, result) ==
               LOutcome("LocalOpenaiClient", "generate_with_images", args, events, exc,
                        result)
       IN  l_last' =
             \* line 220: every exception of the try block, the encoding's
             \* included, is raised as RuntimeError
             IF parts.exc # "" THEN out(<<>>, "RuntimeError", NoneV)
             ELSE IF reply.raises THEN out(<<CallEvent(request)>>, "RuntimeError", NoneV)
             ELSE IF content.exc # ""
             THEN out(<<CallEvent(request)>>,
                      Rewrap(content.exc, GenerateWithImagesCaught, "RuntimeError"), NoneV)
             ELSE out(<<CallEvent(request)>>,
                      Rewrap(stripped.exc, GenerateWithImagesCaught, "RuntimeError"),
                      stripped.val)
    /\ UNCHANGED <<qvars, avars>>

LImageLists == {NoneV} \cup {ListV(l) : l \in SeqsUpTo(LPaths, MaxImages)}

NextLLM ==
    \/ \E prompt \in LPrompts, system_prompt \in LSystemPrompts, reply \in LReplies :
           local_generate(prompt, 10, "0.0", system_prompt, reply)
    \/ \E prompt \in LPrompts, system_prompt \in LSystemPrompts, reply \in LReplies :
           openai_generate(prompt, system_prompt, reply)
    \/ \E prompt \in LPrompts, system_prompt \in LSystemPrompts, reply \in LJsonReplies,
          response_model \in LSchemas :
           generate_json(prompt, 10, response_model, "0.0", system_prompt, reply)
    \/ \E prompt \in LPrompts, system_prompt \in LSystemPrompts, reply \in LReplies,
          images \in LImageLists :
           generate_with_images(prompt, images, system_prompt, 512, "0.7", reply)

\* create_collection run by every adapter instance, in any interleaving.
NextQdrantCreate ==
    \/ \E a \in QAdapters : create_collection_list(a)
    \/ \E a \in QAdapters : create_collection_create(a)

\* add_records and search of one adapter, on a store in any state.
NextQdrantData ==
    \/ \E records \in SeqsUpTo(QRecords, MaxRecords) : add_records("A1", records)
    \/ \E limit \in 0..MaxLimit, filter \in QFilters, score_threshold \in QThresholds :
           search("A1", <<1, 0>>, limit, filter, score_threshold)

Init == QInit /\ AInit /\ LInit

\* The adapters are independent: each specification starts the other stores
\* empty and leaves them alone.
InitQdrant == Init /\ a_coll = "absent"
InitArango == Init /\ q_collections = {}
InitLLM == Init /\ q_collections = {} /\ a_coll = "absent"

SpecQdrantCreate == InitQdrant /\ [][NextQdrantCreate]_vars
SpecQdrantData == InitQdrant /\ [][NextQdrantData]_vars
SpecArango == InitArango /\ [][NextArango]_vars
SpecLLM == InitLLM /\ [][NextLLM]_vars

-----------------------------------------------------------------------------
(* Claims about the vector store adapter *)

\* C1: add_records called with an empty record list raises ValueError and
\* makes no call on the underlying client, whatever the state of the store.
C1_EmptyRecordsRejected ==
    (q_last.op = "add_records" /\ Len(q_last.args) = 0)
        => (q_last.exc = "ValueError" /\ Len(q_last.calls) = 0)

C1_Witness ==
    /\ q_last.op = "add_records" /\ Len(q_last.args) = 0
    /\ q_last.exc = "ValueError"
    /\ collection_name \in q_collections
    /\ DOMAIN q_points # {}

\* C2: of two create_collection invocations an adapter finishes in succession,
\* with no store fault and no other actor changing the store meanwhile, at
\* most one creation call is issued in total, none by the second, and the
\* second leaves the set of collections as it found it.
C2_CreateCollectionIdempotent ==
    \A a \in QAdapters :
        q_hist[a].run = 2 =>
            /\ q_hist[a].creates[1] + q_hist[a].creates[2] <= 1
            /\ q_hist[a].creates[2] = 0
            /\ q_hist[a].unchanged

C2_Witness ==
    \E a \in QAdapters : q_hist[a].run = 2 /\ q_hist[a].creates = <<1, 0>>

\* C7: a successful search returns one (id, payload, score) entry per point of
\* the store's reply, in the reply's order; so the scores never increase along
\* the list and none is below a given score_threshold.
C7_SearchMirrorsReply ==
    (q_last.op = "search" /\ q_last.exc = "") =>
        LET result == q_last.result
            reply == q_last.reply
            threshold == q_last.args.score_threshold
        IN  /\ Len(result) = Len(reply)
            /\ \A k \in 1..Len(result) :
                   /\ DOMAIN result[k] = {"id", "payload", "score"}
                   /\ result[k].id = reply[k].id
                   /\ result[k].payload = reply[k].payload
                   /\ result[k].score = reply[k].score
            /\ \A k \in 1..(Len(result) - 1) : result[k].score >= result[k + 1].score
            /\ threshold.t = "int" =>
                   \A k \in 1..Len(result) : result[k].score >= threshold.i

C7_Witness ==
    /\ q_last.op = "search" /\ q_last.exc = ""
    /\ q_last.args.score_threshold = IntV(0)
    /\ Len(q_last.result) = 2
    /\ q_last.result[1].score > q_last.result[2].score
    /\ q_last.result[1].id > q_last.result[2].id

\* C11: add_records with a non-empty record list issues at most one upsert
\* call, carrying one point per record in input order with id = int(record
\* id), the record's vector and its payload or an empty mapping; it ends with
\* that one upsert having succeeded, or with one error: RuntimeError when the
\* upsert call failed, and an error before any upsert call when a record has
\* no id or an id that is not an integer.
C11_Convertible(rec) ==
    /\ rec.has_id
    /\ \/ rec.id.t = "int"
       \/ /\ rec.id.t = "str" /\ rec.id.s # <<>>
          /\ \A k \in 1..Len(rec.id.s) : rec.id.s[k] \in {Digits[n] : n \in 1..10}

C11_IdOf(rec) == IF rec.id.t = "int" THEN rec.id.i ELSE DecimalValue(rec.id.s)

C11_OneBulkUpsert ==
    (q_last.op = "add_records" /\ Len(q_last.args) > 0) =>
        LET records == q_last.args
            sent == q_last.sent
            upserts == {k \in 1..Len(q_last.calls) : q_last.calls[k] = "upsert"}
            allConvertible == \A k \in 1..Len(records) : C11_Convertible(records[k])
        IN  /\ Cardinality(upserts) <= 1
            /\ upserts # {} =>
                  /\ Len(sent) = Len(records)
                  /\ \A k \in 1..Len(records) :
                        /\ sent[k].id = C11_IdOf(records[k])
                        /\ sent[k].vector = records[k].vector
                        /\ sent[k].payload = IF records[k].has_payload
                                             THEN records[k].payload ELSE EmptyDict
            /\ q_last.exc = "" =>
                  /\ upserts # {}
                  /\ \A k \in 1..Len(sent) : sent[k].id \in DOMAIN q_points
            /\ (q_last.exc # "" /\ upserts # {}) => q_last.exc = "RuntimeError"
            /\ ~allConvertible => (q_last.exc # "" /\ upserts = {})
            /\ allConvertible => upserts # {}

C11_Witness ==
    /\ q_last.op = "add_records" /\ Len(q_last.args) = 2
    /\ q_last.exc = ""
    /\ q_last.args[1].id = StrV(<<"2">>) /\ ~q_last.args[1].has_payload
    /\ q_last.args[2].id = IntV(1)
    /\ q_last.sent[1].id = 2 /\ q_last.sent[1].payload = EmptyDict

-----------------------------------------------------------------------------
(* Claims about the document/graph store adapter *)

\* C3: after insert_item(d) succeeded with key k and no update or delete of k
\* followed, a successful get_item(k) returns a document in which every field
\* of d has the value it had in d.
C3_InsertGetRoundTrip ==
    (a_last.op = "get_item" /\ a_last.exc = "" /\ a_track.live
        /\ a_last.args = a_track.key) =>
        /\ a_last.result.t = "dict"
        /\ \A field \in a_track.item : field \in a_last.result.d

C3_Witness ==
    /\ a_last.op = "get_item" /\ a_last.exc = "" /\ a_track.live
    /\ a_last.args = a_track.key
    /\ a_track.item = {<<"name", "a">>, <<"tag", "x">>}
    /\ Cardinality(a_docs) = 2

\* C4: delete_item(k) for a key k no document of the collection has raises
\* RuntimeError or returns False, never a truthy value, and leaves the
\* collection's documents as they were.
C4_DeleteMissingFails ==
    (a_last.op = "delete_item" /\ ~HasDoc(a_last.before, a_last.args)) =>
        /\ a_last.exc = "RuntimeError" \/ (a_last.exc = "" /\ a_last.result = BoolV(FALSE))
        /\ ~(a_last.exc = "" /\ Truthy(a_last.result))
        /\ a_docs = a_last.before

C4_Witness ==
    /\ a_last.op = "delete_item" /\ ~HasDoc(a_last.before, a_last.args)
    /\ a_last.before # {}
    /\ a_last.exc = "RuntimeError"

\* C8: the constructor, when the server answers, issues a creation call exactly
\* when the collection was absent at the existence check, for an edge
\* collection exactly when is_edge_collection; a construction that succeeds
\* leaves the collection existing and yields an adapter holding its handle; a
\* construction the server fails raises RuntimeError and yields no adapter.
C8_Creates(calls) == {k \in 1..Len(calls) : calls[k].call = "create_collection"}

C8_Constructor ==
    a_last.op = "__init__" =>
        LET env == a_last.args.env
            creates == C8_Creates(a_last.calls)
            serverFails == \/ env \in {"connect", "unreachable"}
                           \/ env = "create_denied" /\ a_last.before = "absent"
        IN  /\ env \notin {"connect", "unreachable"}
                  => (creates # {} <=> a_last.before = "absent")
            /\ Cardinality(creates) <= 1
            /\ \A k \in creates :
                  a_last.calls[k].kind = "edge" <=> a_last.args.is_edge_collection
            /\ a_last.exc = "" =>
                  /\ a_coll # "absent"
                  /\ a_last.result # NoneV
                  /\ a_adapter = a_last.result
                  /\ a_adapter.collection_name = a_collection_name
            /\ serverFails <=> a_last.exc = "RuntimeError"
            /\ a_last.exc = "RuntimeError" => a_last.result = NoneV
            /\ a_last.exc \in {"", "RuntimeError"}

C8_Witness ==
    /\ a_last.op = "__init__" /\ a_last.exc = ""
    /\ a_last.before = "absent"
    /\ a_last.args.is_edge_collection
    /\ a_coll = "edge"

\* C12: a successful update_item(k, u) on a stored document k sets exactly the
\* fields named in u to their values in u and leaves every other field of k
\* (the server's revision mark aside) and every other document unchanged; an
\* update that fails, as when no document has key k, raises ValueError and
\* leaves the collection unchanged.
C12_Fields(doc) == {p \in doc : p[1] # "_rev"}

C12_UpdateMergesOrFails ==
    a_last.op = "update_item" =>
        LET k == a_last.args.key
            u == a_last.args.updates
            before == a_last.before
        IN  /\ (a_last.exc = "" /\ HasDoc(before, k)) =>
                  LET old == DocOf(before, k)
                  IN  /\ HasDoc(a_docs, k)
                      /\ C12_Fields(DocOf(a_docs, k)) =
                            {p \in C12_Fields(old) : p[1] \notin Keys(u)} \cup u
                      /\ a_docs \ {DocOf(a_docs, k)} = before \ {old}
            /\ ~HasDoc(before, k) =>
                  (a_last.exc = "ValueError" /\ a_docs = before)
            /\ a_last.exc # "" =>
                  (a_last.exc = "ValueError" /\ a_docs = before)

-----------------------------------------------------------------------------
(* Claims about the LLM clients *)

\* C5: generate, in both clients, sends exactly one request whose messages are
\* {role: system, content: s} then {role: user, content: [{type: text, text:
\* p}]} when the system prompt s is non-empty, and the user message alone when
\* it is empty, whatever the endpoint answers.
C5_UserMessage(prompt) ==
    [role |-> "user", content |-> ListV(<<[type |-> "text", text |-> prompt]>>)]

C5_GenerateMessages ==
    l_last.op = "generate" =>
        LET creates == {k \in 1..Len(l_last.events) : l_last.events[k].e = "create"}
            user == C5_UserMessage(l_last.args.prompt)
            system == [role |-> "system", content |-> l_last.args.system_prompt]
        IN  /\ creates = {1}
            /\ l_last.events[1].request.messages =
                  IF l_last.args.system_prompt # EmptyStr THEN <<system, user>>
                  ELSE <<user>>

C5_Witness ==
    /\ l_last.op = "generate" /\ l_last.client = "LocalOpenaiClient"
    /\ l_last.args.system_prompt # EmptyStr
    /\ l_last.args.reply.raises
    /\ Len(l_last.events[1].request.messages) = 2

\* C6: generate_json, when the call succeeds and the first choice's text is
\* JSON conforming to the schema, returns a mapping equal to the parsed and
\* validated value; when the text is not valid JSON or does not conform, it
\* raises ValueError and returns nothing.
C6_GenerateJsonReturnsMapping ==
    (/\ l_last.op = "generate_json"
     /\ ~l_last.args.reply.raises
     /\ FirstChoiceContent(l_last.args.reply.response).exc = "") =>
        LET text == FirstChoiceContent(l_last.args.reply.response).val
            valid == model_validate_json(l_last.args.response_model, text)
        IN  IF valid.exc = ""
            THEN /\ l_last.exc = ""
                 /\ l_last.result.t = "dict"
                 /\ l_last.result = valid.val
            ELSE /\ l_last.exc = "ValueError"
                 /\ l_last.result = NoneV

\* C9: generate, in both clients, ends in one of three ways: it returns the
\* first choice's message content, or raises RuntimeError because the call
\* failed, or raises RuntimeError because the response has not the expected
\* shape; no other exception leaves it.
C9_GenerateEndsThreeWays ==
    l_last.op = "generate" =>
        LET reply == l_last.args.reply
            content == FirstChoiceContent(reply.response)
        IN  \/ /\ ~reply.raises /\ content.exc = ""
               /\ l_last.exc = "" /\ l_last.result = content.val
            \/ /\ reply.raises
               /\ l_last.exc = "RuntimeError"
            \/ /\ ~reply.raises /\ content.exc # ""
               /\ l_last.exc = "RuntimeError"

\* C10: generate_with_images sends one user message holding the text part and
\* then one image_url part per image path, in order, each a
\* data:image/jpeg;base64 URI of the file's bytes (after a system message when
\* the system prompt is non-empty); when an image cannot be read it raises
\* RuntimeError and sends nothing.
C10_ImagePart(path) ==
    [type |-> "image_url",
     image_url |-> [url |-> StrV(<<"data:image/jpeg;base64,">>
                                 \o b64encode(FileBytes(path)))]]

C10_ImagesMessage ==
    l_last.op = "generate_with_images" =>
        LET paths == IF l_last.args.images = NoneV THEN <<>> ELSE l_last.args.images.l
            user == [role |-> "user",
                     content |-> ListV(<<[type |-> "text", text |-> l_last.args.prompt]>>
                                       \o [k \in 1..Len(paths) |-> C10_ImagePart(paths[k])])]
            system == [role |-> "system", content |-> l_last.args.system_prompt]
        IN  IF \A k \in 1..Len(paths) : FileReadable(paths[k])
            THEN /\ Len(l_last.events) = 1
                 /\ l_last.events[1].e = "create"
                 /\ l_last.events[1].request.messages =
                       IF l_last.args.system_prompt # EmptyStr THEN <<system, user>>
                       ELSE <<user>>
            ELSE /\ l_last.exc = "RuntimeError"
                 /\ l_last.events = <<>>

\* C13: one generate invocation of OpenaiClient issues exactly one
\* chat-completion call whether or not the call fails; when it fails the
\* events are the one call, then the pause of 60 seconds, then RuntimeError
\* raised to the caller: the call is not made again, and an invocation that
\* raises returns no value.
C13_OneCallThenPause ==
    (l_last.op = "generate" /\ l_last.client = "OpenaiClient") =>
        LET events == l_last.events
            creates == {k \in 1..Len(events) : events[k].e = "create"}
            sleeps == {k \in 1..Len(events) : events[k].e = "sleep"}
        IN  /\ creates = {1}
            /\ IF l_last.args.reply.raises
               THEN /\ Len(events) = 2
                    /\ sleeps = {2}
                    /\ events[2].seconds = 60
                    /\ l_last.exc = "RuntimeError"
               ELSE /\ Len(events) = 1
                    /\ sleeps = {}
            /\ l_last.exc # "" => l_last.result = NoneV

C13_Witness ==
    /\ l_last.op = "generate" /\ l_last.client = "OpenaiClient"
    /\ l_last.args.reply.raises
    /\ l_last.args.system_prompt # EmptyStr
    /\ Len(l_last.events) = 2 /\ l_last.events[2].e = "sleep"
    /\ l_last.exc = "RuntimeError"

-----------------------------------------------------------------------------
(* Claims about adapters running concurrently *)

\* C14: when several adapter instances run create_collection against one
\* store in any interleaving, every creation call arrives while the collection
\* is still absent, so the store handles at most one creation call for the
\* name in total and no create_collection invocation ends in RuntimeError
\* because the collection already exists.
C14_CreationsFindAbsent ==
    /\ q_arrivals.present = 0
    /\ q_arrivals.absent + q_arrivals.present <= 1

====
